---- MODULE Spec2Model ----
(***************************************************************************)
(* plot_z25.py: one run of main() as a state machine.  The inputs of a run *)
(* (command line, metadata file, data file, populated-places shapefile)    *)
(* are fixed in the initial state; every action is one stage of main().    *)
(* Floats are modelled by integers; an optional value is the empty         *)
(* sequence (None) or a one-element sequence.                              *)
(***************************************************************************)
EXTENDS Integers, Sequences, FiniteSets, TLC

VARIABLES
    argv,           \* the command line: [scale_mode, user_max]
    metaFile,       \* parsed JSON of --meta_file: a function from keys to values
    dataFile,       \* the rows of --data_file, each a 5-column tuple
    shapeFile,      \* the records of the populated_places shapefile
    pc,             \* position of main()
    args,           \* the argparse namespace (scale_mode is overwritten by the loader)
    lat_list, lon_list, nx, ny, meta_max,
    depths_flat,    \* the flat depth sequence
    depths,         \* masked array: [data, mask], both seq of rows
    vmin, vmax,     \* colour scale, None until resolved
    layers,         \* calls made on the map axes, in order
    im,             \* the imshow call's arguments, None until made
    idx,            \* position of the city loop in shapeFile
    plotted,        \* the shapefile positions whose marker was drawn, in order
    cities_plotted,
    log,            \* the logger's lines, in order
    output          \* the output file: "absent" or "written"

vars == <<argv, metaFile, dataFile, shapeFile, pc, args, lat_list, lon_list, nx, ny,
          meta_max, depths_flat, depths, vmin, vmax, layers, im, idx, plotted,
          cities_plotted, log, output>>

None == << >>
Some(v) == <<v>>

\* --------------------------------------------------------------- bounds
MaxN == 2          \* nx, ny range over 1..MaxN
MaxRows == 4       \* data files hold 0..MaxRows rows
MaxCities == 2     \* shapefiles hold 0..MaxCities records

\* --------------------------------------------------------------- program constants
MaskValue == -1
PopThreshold == 500000

\* --------------------------------------------------------------- input universe
ScaleModes == {"metadata", "datamax", "user"}
UserMaxValues == {0, 4}
CommandLines == [scale_mode : ScaleModes, user_max : {None} \cup {Some(v) : v \in UserMaxValues}]

\* rows: columns 0 and 1 are coordinates the program never reads
DataRows == { <<0, 0, 1, 5, 9>>, <<0, 0, 0, -1, -3>>, <<0, 0, 2, 9, -1>> }
SeqsUpTo(S, n) == UNION { [1..k -> S] : k \in 0..n }
DataFiles == SeqsUpTo(DataRows, MaxRows)

LatLists == { <<2>>, <<2, 4>>, <<4, 2>>, <<2, 4, 3>> }
LonLists == { <<2, 4>> }
MetaDepths == {6}
MetaBase == [lat_list : LatLists, lon_list : LonLists, nx : 1..MaxN, ny : 1..MaxN]
\* the max-depth entry: absent, under the documented key, or under the key the loader reads
MetaFiles == MetaBase
             \cup { ("max_depth" :> d) @@ m : m \in MetaBase, d \in MetaDepths }
             \cup { ("max depth" :> d) @@ m : m \in MetaBase, d \in MetaDepths }

CityNames == {"Oakland", "Los Angeles"}
CityPops == {None, Some(499999), Some(500000)}
CityPoints == { <<2, 4>>, <<3, 3>>, <<5, 3>>, <<3, 1>> }
CityRecords == [NAME : CityNames, POP_MAX : CityPops, pt : CityPoints]
ShapeFiles == SeqsUpTo(CityRecords, MaxCities)

\* the inputs of the two specifications' runs
PipelineShapeFiles ==
    { << [NAME |-> "Oakland", POP_MAX |-> Some(500000), pt |-> <<3, 3>>],
         [NAME |-> "Los Angeles", POP_MAX |-> Some(500000), pt |-> <<3, 3>>] >> }
CityCommandLines == { c \in CommandLines : c.scale_mode = "datamax" /\ c.user_max = None }
CityMetaFiles == { m \in MetaBase : m["nx"] = 1 /\ m["ny"] = 2 /\ Len(m["lat_list"]) = 2 }
CityDataFiles == { << <<0, 0, 1, 5, 9>>, <<0, 0, 2, 9, -1>> >> }

\* --------------------------------------------------------------- helpers
SeqMin(s) == CHOOSE x \in {s[i] : i \in DOMAIN s} : \A j \in DOMAIN s : x <= s[j]
SeqMax(s) == CHOOSE x \in {s[i] : i \in DOMAIN s} : \A j \in DOMAIN s : x >= s[j]
SetMax(S) == CHOOSE x \in S : \A y \in S : x >= y

\* column i (0-based, as in data[:, i]) of a row
Col(row, i) == row[i + 1]

\* --------------------------------------------------------------- numpy
\* np.loadtxt (ndmin=0): axes of length one are squeezed, so a file of one
\* row (or none) comes back one-dimensional
LoadTxtNdim(rows) == IF Len(rows) >= 2 THEN 2 ELSE 1

\* np.where(data[:,2] == 1, data[:,3], data[:,4])
SelectDepth(row) == IF Col(row, 2) = 1 THEN Col(row, 3) ELSE Col(row, 4)
DepthsFlat(rows) == [i \in 1..Len(rows) |-> SelectDepth(rows[i])]

\* depths_flat.reshape((ny, nx)): row-major
Reshape(flat, rows, cols) ==
    [r \in 1..rows |-> [c \in 1..cols |-> flat[(r - 1) * cols + c]]]

\* a mask taken with <= instead of ==
MaskedEqual_LessEqual(grid, value) ==
    [data |-> grid,
     mask |-> [r \in DOMAIN grid |-> [c \in DOMAIN grid[r] |-> grid[r][c] <= value]]]

\* np.ma.masked_equal(grid, -1.0)
MaskedEqual(grid, value) ==
    [data |-> grid,
     mask |-> [r \in DOMAIN grid |-> [c \in DOMAIN grid[r] |-> grid[r][c] = value]]]

\* np.flipud on a masked array: data and mask are reversed together
ReverseSeq(s) == [i \in 1..Len(s) |-> s[Len(s) + 1 - i]]
\* a flip that reverses the values and leaves the mask in place
FlipUD_MaskStays(m) == [data |-> ReverseSeq(m.data), mask |-> m.mask]

FlipUD(m) == [data |-> ReverseSeq(m.data), mask |-> ReverseSeq(m.mask)]

Cells(m) == { <<r, c>> : r \in DOMAIN m.data, c \in 1..(IF Len(m.data) = 0 THEN 0 ELSE Len(m.data[1])) }
\* depths.mask.all()
MaskAll(m) == \A rc \in Cells(m) : m.mask[rc[1]][rc[2]]
\* depths.max(): the maximum over the unmasked cells
MaskedMax(m) == SetMax({ m.data[rc[1]][rc[2]] : rc \in { q \in Cells(m) : ~m.mask[q[1]][q[2]] } })

\* --------------------------------------------------------------- log lines
\* a line is <<text, number formatted into it>>
Line(text) == <<text, 0>>
WarnNoMaxDepth == Line("WARNING: 'max_depth' not found in metadata. Using datamax mode instead.")
InfoMetadata == Line("INFO: Metadata")
ErrSizeMismatch == Line("ERROR: Data size mismatch")
InfoFlipped == Line("INFO: Flipped data vertically")
ErrNoMetaMax == Line("ERROR: Metadata mode selected but no 'max_depth' found. Exiting.")
WarnAllMissing == Line("WARNING: All data are missing; setting max to 0")
ErrNoUserMax == Line("ERROR: User max scale mode requires --user_max value")
ErrInvalidMode == Line("ERROR: Invalid scale_mode. Exiting.")
InfoScale == Line("INFO: Using color scale")
InfoExtent == Line("INFO: Set map extent.")
InfoRoads == Line("INFO: Added major roads")
WarnRoads == Line("WARNING: Could not load major roads")
InfoRendered == Line("INFO: Rendered depth data with imshow")
InfoCities(n) == <<"INFO: Plotted major cities on the map.", n>>
InfoSaved == Line("INFO: Map saved")
ErrSave == Line("ERROR: Error saving figure")

\* --------------------------------------------------------------- main()
InitWith(commandLines, metaFiles, dataFiles, shapeFiles) ==
    /\ argv \in commandLines
    /\ metaFile \in metaFiles
    /\ dataFile \in dataFiles
    /\ shapeFile \in shapeFiles
    /\ pc = "load_meta"
    /\ args = argv
    /\ lat_list = << >> /\ lon_list = << >> /\ nx = 0 /\ ny = 0 /\ meta_max = None
    /\ depths_flat = << >>
    /\ depths = [data |-> << >>, mask |-> << >>]
    /\ vmin = None /\ vmax = None
    /\ layers = << >> /\ im = None
    /\ idx = 0 /\ plotted = << >> /\ cities_plotted = 0
    /\ log = << >>
    /\ output = "absent"

\* every command line, metadata file and data file, over one shapefile
Init == InitWith(CommandLines, MetaFiles, DataFiles, PipelineShapeFiles)

\* every shapefile, over a few runs that reach the city loop
InitCities == InitWith(CityCommandLines, CityMetaFiles, CityDataFiles, ShapeFiles)

\* a loader that keeps the requested mode when the entry is absent
EffectiveMode_Keep(meta, mode) == mode

\* a loader that downgrades only the default mode
EffectiveMode_MetadataOnly(meta, mode) ==
    IF "max depth" \notin DOMAIN meta /\ mode = "metadata" THEN "datamax" ELSE mode

\* lines 47-51: args.scale_mode after the loader
EffectiveMode(meta, mode) == IF "max depth" \in DOMAIN meta THEN mode ELSE "datamax"

\* lines 47-52: meta_max
MetaMax(meta) == IF "max depth" \in DOMAIN meta THEN Some(meta["max depth"]) ELSE None

\* lines 38-54
LoadMeta ==
    /\ pc = "load_meta"
    /\ lat_list' = metaFile["lat_list"]
    /\ lon_list' = metaFile["lon_list"]
    /\ nx' = metaFile["nx"]
    /\ ny' = metaFile["ny"]
    /\ meta_max' = MetaMax(metaFile)
    /\ args' = [args EXCEPT !.scale_mode = EffectiveMode(metaFile, args.scale_mode)]
    /\ log' = IF "max depth" \in DOMAIN metaFile
                THEN log \o <<InfoMetadata>>
                ELSE log \o <<WarnNoMaxDepth, InfoMetadata>>
    /\ pc' = "read_data"
    /\ UNCHANGED <<argv, metaFile, dataFile, shapeFile, depths_flat, depths, vmin, vmax,
                   layers, im, idx, plotted, cities_plotted, output>>

\* lines 56-68
ReadData ==
    /\ pc = "read_data"
    /\ IF LoadTxtNdim(dataFile) < 2
         THEN \* data[:,2] on a one-dimensional array raises IndexError
              /\ pc' = "crashed"
              /\ UNCHANGED <<depths_flat, log>>
         ELSE /\ depths_flat' = DepthsFlat(dataFile)
              /\ IF Len(depths_flat') # nx * ny
                   THEN /\ log' = Append(log, ErrSizeMismatch)
                        /\ pc' = "done"
                   ELSE /\ log' = log
                        /\ pc' = "reshape"
    /\ UNCHANGED <<argv, metaFile, dataFile, shapeFile, args, lat_list, lon_list, nx, ny,
                   meta_max, depths, vmin, vmax, layers, im, idx, plotted, cities_plotted,
                   output>>

\* lines 70-71
ReshapeAndMask ==
    /\ pc = "reshape"
    /\ depths' = MaskedEqual(Reshape(depths_flat, ny, nx), MaskValue)
    /\ pc' = "orient"
    /\ UNCHANGED <<argv, metaFile, dataFile, shapeFile, args, lat_list, lon_list, nx, ny,
                   meta_max, depths_flat, vmin, vmax, layers, im, idx, plotted,
                   cities_plotted, log, output>>

\* line 74
LatAscending(lats) == lats[1] < lats[Len(lats)]

\* lines 73-77
Orient ==
    /\ pc = "orient"
    /\ IF ~LatAscending(lat_list)
         THEN /\ depths' = FlipUD(depths)
              /\ log' = Append(log, InfoFlipped)
         ELSE UNCHANGED <<depths, log>>
    /\ pc' = "resolve_scale"
    /\ UNCHANGED <<argv, metaFile, dataFile, shapeFile, args, lat_list, lon_list, nx, ny,
                   meta_max, depths_flat, vmin, vmax, layers, im, idx, plotted,
                   cities_plotted, output>>

\* The branches of the scale resolution give [ok, vmax, lines]: whether main()
\* goes on, the vmax chosen, and the lines logged.

\* lines 80-84
MetadataBranch(metaMax) ==
    IF metaMax = None
      THEN [ok |-> FALSE, vmax |-> None, lines |-> <<ErrNoMetaMax>>]
      ELSE [ok |-> TRUE, vmax |-> metaMax, lines |-> << >>]

\* lines 85-90
DatamaxBranch(m) ==
    IF MaskAll(m)
      THEN [ok |-> TRUE, vmax |-> Some(0), lines |-> <<WarnAllMissing>>]
      ELSE [ok |-> TRUE, vmax |-> Some(MaskedMax(m)), lines |-> << >>]

\* the error is logged but main() does not return
UserBranch_NoReturn(userMax) ==
    IF userMax = None
      THEN [ok |-> TRUE, vmax |-> None, lines |-> <<ErrNoUserMax>>]
      ELSE [ok |-> TRUE, vmax |-> userMax, lines |-> << >>]

\* `if not args.user_max`: a user_max of 0 counts as missing
UserBranch_Truthy(userMax) ==
    IF userMax = None \/ userMax = Some(0)
      THEN [ok |-> FALSE, vmax |-> None, lines |-> <<ErrNoUserMax>>]
      ELSE [ok |-> TRUE, vmax |-> userMax, lines |-> << >>]

\* no check of user_max at all
UserBranch_NoCheck(userMax) == [ok |-> TRUE, vmax |-> userMax, lines |-> << >>]

\* lines 91-95
UserBranch(userMax) ==
    IF userMax = None
      THEN [ok |-> FALSE, vmax |-> None, lines |-> <<ErrNoUserMax>>]
      ELSE [ok |-> TRUE, vmax |-> userMax, lines |-> << >>]

\* lines 96-98
InvalidBranch == [ok |-> FALSE, vmax |-> None, lines |-> <<ErrInvalidMode>>]

\* lines 79-101
ResolveScale ==
    /\ pc = "resolve_scale"
    /\ LET res == IF args.scale_mode = "metadata" THEN MetadataBranch(meta_max)
                  ELSE IF args.scale_mode = "datamax" THEN DatamaxBranch(depths)
                  ELSE IF args.scale_mode = "user" THEN UserBranch(args.user_max)
                  ELSE InvalidBranch
       IN IF res.ok
            THEN /\ vmax' = res.vmax
                 /\ vmin' = Some(0)
                 /\ log' = log \o res.lines \o <<InfoScale>>
                 /\ pc' = "setup_map"
            ELSE \* return
                 /\ log' = log \o res.lines
                 /\ pc' = "done"
                 /\ UNCHANGED <<vmin, vmax>>
    /\ UNCHANGED <<argv, metaFile, dataFile, shapeFile, args, lat_list, lon_list, nx, ny,
                   meta_max, depths_flat, depths, layers, im, idx, plotted, cities_plotted,
                   output>>

\* lines 108-109
Extent == [lon_min |-> SeqMin(lon_list), lon_max |-> SeqMax(lon_list),
           lat_min |-> SeqMin(lat_list), lat_max |-> SeqMax(lat_list)]

\* lines 103-120
SetupMap ==
    /\ pc = "setup_map"
    /\ layers' = layers \o <<"set_extent", "LAND", "OCEAN", "COASTLINE", "BORDERS", "states">>
    /\ log' = Append(log, InfoExtent)
    /\ pc' = "add_roads"
    /\ UNCHANGED <<argv, metaFile, dataFile, shapeFile, args, lat_list, lon_list, nx, ny,
                   meta_max, depths_flat, depths, vmin, vmax, im, idx, plotted,
                   cities_plotted, output>>

\* lines 122-131: the roads layer is optional
AddRoads ==
    /\ pc = "add_roads"
    /\ \E loaded \in BOOLEAN :
         IF loaded
           THEN /\ layers' = Append(layers, "roads")
                /\ log' = Append(log, InfoRoads)
           ELSE /\ layers' = layers
                /\ log' = Append(log, WarnRoads)
    /\ pc' = "imshow"
    /\ UNCHANGED <<argv, metaFile, dataFile, shapeFile, args, lat_list, lon_list, nx, ny,
                   meta_max, depths_flat, depths, vmin, vmax, im, idx, plotted,
                   cities_plotted, output>>

\* lines 133-141
RenderDepth ==
    /\ pc = "imshow"
    /\ im' = Some([depths |-> depths, extent |-> Extent, vmin |-> vmin, vmax |-> vmax])
    /\ layers' = Append(layers, "imshow")
    /\ log' = Append(log, InfoRendered)
    /\ pc' = "open_cities"
    /\ UNCHANGED <<argv, metaFile, dataFile, shapeFile, args, lat_list, lon_list, nx, ny,
                   meta_max, depths_flat, depths, vmin, vmax, idx, plotted, cities_plotted,
                   output>>

\* lines 143-146
OpenCities ==
    /\ pc = "open_cities"
    /\ cities_plotted' = 0
    /\ idx' = 1
    /\ pc' = "cities"
    /\ UNCHANGED <<argv, metaFile, dataFile, shapeFile, args, lat_list, lon_list, nx, ny,
                   meta_max, depths_flat, depths, vmin, vmax, layers, im, plotted, log,
                   output>>

\* a threshold taken with > instead of >=
PopOk_Strict(pop) == pop # None /\ pop[1] # 0 /\ pop[1] > PopThreshold

\* line 152: `if pop and pop >= 500000` (None and 0 are falsy)
PopOk(pop) == pop # None /\ pop[1] # 0 /\ pop[1] >= PopThreshold

\* line 154
InBounds(pt, e) ==
    /\ e.lon_min <= pt[1] /\ pt[1] <= e.lon_max
    /\ e.lat_min <= pt[2] /\ pt[2] <= e.lat_max

\* lines 148-154: the record passes the filter
CityPasses(rec, e) ==
    /\ rec.NAME # "Oakland"
    /\ PopOk(rec.POP_MAX)
    /\ InBounds(rec.pt, e)

\* lines 147-158: one iteration of the loop over reader.records()
PlotCity ==
    /\ pc = "cities"
    /\ idx <= Len(shapeFile)
    /\ IF CityPasses(shapeFile[idx], Extent)
         THEN /\ layers' = layers \o <<"plot", "text">>
              /\ plotted' = Append(plotted, idx)
              /\ cities_plotted' = cities_plotted + 1
         ELSE UNCHANGED <<layers, plotted, cities_plotted>>
    /\ idx' = idx + 1
    /\ UNCHANGED <<argv, metaFile, dataFile, shapeFile, pc, args, lat_list, lon_list, nx,
                   ny, meta_max, depths_flat, depths, vmin, vmax, im, log, output>>

\* lines 160-166: the loop is exhausted
FinishFigure ==
    /\ pc = "cities"
    /\ idx > Len(shapeFile)
    /\ log' = Append(log, InfoCities(cities_plotted))
    /\ layers' = layers \o <<"colorbar", "title", "tight_layout">>
    /\ pc' = "save"
    /\ UNCHANGED <<argv, metaFile, dataFile, shapeFile, args, lat_list, lon_list, nx, ny,
                   meta_max, depths_flat, depths, vmin, vmax, im, idx, plotted,
                   cities_plotted, output>>

\* lines 168-173: savefig may raise; the exception is caught and logged
SaveFigure ==
    /\ pc = "save"
    /\ \E saved \in BOOLEAN :
         IF saved
           THEN /\ output' = "written"
                /\ log' = Append(log, InfoSaved)
           ELSE /\ output' = output
                /\ log' = Append(log, ErrSave)
    /\ pc' = "done"
    /\ UNCHANGED <<argv, metaFile, dataFile, shapeFile, args, lat_list, lon_list, nx, ny,
                   meta_max, depths_flat, depths, vmin, vmax, layers, im, idx, plotted,
                   cities_plotted>>

Next ==
    \/ LoadMeta
    \/ ReadData
    \/ ReshapeAndMask
    \/ Orient
    \/ ResolveScale
    \/ SetupMap
    \/ AddRoads
    \/ RenderDepth
    \/ OpenCities
    \/ PlotCity
    \/ FinishFigure
    \/ SaveFigure

Spec == Init /\ [][Next]_vars

SpecCities == InitCities /\ [][Next]_vars

\* =============================================================== claims
\* Reference definitions, written from the input files alone.
InLog(line) == \E i \in DOMAIN log : log[i] = line
FileNx == metaFile["nx"]
FileNy == metaFile["ny"]
FileLats == metaFile["lat_list"]
RightSize == Len(dataFile) = FileNx * FileNy
\* the selected depth of input row i
Selected(i) == IF dataFile[i][3] = 1 THEN dataFile[i][4] ELSE dataFile[i][5]
UnmaskedDepths == { Selected(i) : i \in DOMAIN dataFile } \ {-1}
DataMax == IF UnmaskedDepths = {} THEN 0
           ELSE CHOOSE x \in UnmaskedDepths : \A y \in UnmaskedDepths : y <= x
FatalLogged ==
    InLog(ErrSizeMismatch) \/ InLog(ErrNoMetaMax) \/ InLog(ErrNoUserMax) \/ InLog(ErrInvalidMode)
RenderingPcs == {"setup_map", "add_roads", "imshow", "open_cities", "cities", "save"}
\* the scale was resolved: main() is past line 101
ScaleResolved == pc \in RenderingPcs \/ (pc = "done" /\ ~FatalLogged)
\* the orientation step has run: main() is past line 77
Oriented == pc = "resolve_scale" \/ pc \in RenderingPcs \/ (pc = "done" /\ ~InLog(ErrSizeMismatch))

\* C1: for every metadata file with nx, ny >= 1 and every data file of exactly
\* nx*ny rows, the loader produces, before any flip, a grid of shape (ny, nx)
\* whose cell (r, c) is the selected depth of input row r*nx + c.
C1_LoaderGrid ==
    (RightSize /\ pc \notin {"load_meta", "read_data"}) =>
        /\ pc # "crashed"
        /\ ~InLog(ErrSizeMismatch)
        /\ pc = "orient" =>
             /\ Len(depths.data) = FileNy
             /\ \A r \in 1..FileNy :
                  /\ Len(depths.data[r]) = FileNx
                  /\ \A c \in 1..FileNx : depths.data[r][c] = Selected((r - 1) * FileNx + c)

\* C2: every fatal condition (size mismatch, metadata mode without max depth,
\* user mode without user_max, unrecognised mode) stops main() where it is
\* detected: nothing is rendered, nothing more is logged, no step follows and
\* the output file is not written; the output file is written only when the
\* size check and the scale resolution both succeeded.
C2_FatalStops ==
    /\ FatalLogged =>
         /\ pc = "done"
         /\ layers = << >> /\ im = None
         /\ output = "absent"
         /\ log[Len(log)] \in {ErrSizeMismatch, ErrNoMetaMax, ErrNoUserMax, ErrInvalidMode}
         /\ ~ENABLED Next
    /\ output = "written" =>
         /\ ~FatalLogged
         /\ Len(dataFile) = nx * ny /\ Len(depths_flat) = nx * ny
         /\ vmin = Some(0) /\ vmax # None

C2_Witness ==
    /\ pc = "done" /\ InLog(ErrSizeMismatch)
    /\ Len(dataFile) = 3 /\ FileNx = 2 /\ FileNy = 2
    /\ output = "absent" /\ layers = << >>

\* C3: an ascending latitude list (first < last) leaves the grid as loaded;
\* otherwise the grid is flipped top-to-bottom: row r after the flip is input
\* row ny-1-r, each cell's mask moving with its value.
StrictlyAscending(s) == \A i \in 1..(Len(s) - 1) : s[i] < s[i + 1]
GridIs(rowOf(_)) ==
    /\ Len(depths.data) = FileNy /\ Len(depths.mask) = FileNy
    /\ \A r \in 1..FileNy : \A c \in 1..FileNx :
         /\ depths.data[r][c] = Selected((rowOf(r) - 1) * FileNx + c)
         /\ depths.mask[r][c] = (Selected((rowOf(r) - 1) * FileNx + c) = -1)
SameRow(r) == r
MirrorRow(r) == FileNy + 1 - r
C3_Orientation ==
    Oriented =>
        /\ (Len(FileLats) >= 2 /\ StrictlyAscending(FileLats)) =>
             (GridIs(SameRow) /\ ~InLog(InfoFlipped))
        /\ FileLats[1] < FileLats[Len(FileLats)] =>
             (GridIs(SameRow) /\ ~InLog(InfoFlipped))
        /\ ~(FileLats[1] < FileLats[Len(FileLats)]) =>
             (GridIs(MirrorRow) /\ InLog(InfoFlipped))

C3_Witness ==
    /\ Oriented /\ FileLats = <<4, 2>> /\ FileNy = 2 /\ FileNx = 2
    /\ depths.data = << <<-1, 5>>, <<5, -3>> >>
    /\ depths.mask = << <<TRUE, FALSE>>, <<FALSE, FALSE>> >>
    /\ dataFile[1] = <<0, 0, 1, 5, 9>> /\ dataFile[3] = <<0, 0, 2, 9, -1>>

\* C4: a metadata file that carries max_depth, run in scale mode metadata,
\* resolves the colour scale to vmin = 0, vmax = max_depth.
C4_MetadataScale ==
    ("max_depth" \in DOMAIN metaFile /\ argv.scale_mode = "metadata"
        /\ RightSize /\ (pc \in RenderingPcs \/ pc = "done")) =>
        (vmin = Some(0) /\ vmax = Some(metaFile["max_depth"]))

\* C5: when the loader finds no max-depth entry, the effective scale mode is
\* datamax and a warning is logged, whatever --scale_mode and --user_max were;
\* the scale resolution does not abort and vmax is the data maximum.
C5_MissingKeyDatamax ==
    ("max depth" \notin DOMAIN metaFile /\ pc # "load_meta") =>
        /\ args.scale_mode = "datamax"
        /\ InLog(WarnNoMaxDepth)
        /\ ~InLog(ErrNoMetaMax) /\ ~InLog(ErrNoUserMax) /\ ~InLog(ErrInvalidMode)
        /\ (Oriented /\ pc # "resolve_scale") => (ScaleResolved /\ vmax = Some(DataMax))

C5_Witness ==
    /\ DOMAIN metaFile = {"lat_list", "lon_list", "nx", "ny"}
    /\ argv.scale_mode = "user" /\ argv.user_max = Some(4)
    /\ pc = "save" /\ vmax = Some(5) /\ InLog(WarnNoMaxDepth)

\* C6: a run with --scale_mode user and a --user_max value resolves
\* vmax = user_max and vmin = 0, for every metadata file and every data file
\* of the right size.
C6_UserScale ==
    (argv.scale_mode = "user" /\ argv.user_max # None /\ RightSize /\ pc \in RenderingPcs) =>
        (vmin = Some(0) /\ vmax = argv.user_max)

\* C6, amended: whenever the scale resolution runs with effective scale mode
\* user (the loader found its max-depth entry, so the mode was not downgraded)
\* and a --user_max value, it succeeds with vmin = 0 and vmax = user_max.
C6_EffectiveUserScale ==
    (args.scale_mode = "user" /\ args.user_max # None /\ Oriented /\ pc # "resolve_scale") =>
        /\ ScaleResolved
        /\ vmin = Some(0)
        /\ vmax = argv.user_max

C6_Witness ==
    /\ argv.scale_mode = "user" /\ argv.user_max = Some(0)
    /\ "max depth" \in DOMAIN metaFile
    /\ pc = "save" /\ vmax = Some(0) /\ vmin = Some(0)
    /\ UnmaskedDepths # {}

\* C7: in effective mode datamax the cells equal to -1 (and only those) are
\* masked, vmax is the maximum of the unmasked cells, and vmax = 0 with a
\* warning, the run continuing, when every cell is masked; flipped or not.
C7_DatamaxIgnoresMasked ==
    (args.scale_mode = "datamax" /\ Oriented /\ pc # "resolve_scale") =>
        /\ ScaleResolved
        /\ vmin = Some(0)
        /\ vmax = Some(DataMax)
        /\ \A r \in DOMAIN depths.data : \A c \in DOMAIN depths.data[r] :
             depths.mask[r][c] = (depths.data[r][c] = -1)
        /\ InLog(WarnAllMissing) = (UnmaskedDepths = {})
        /\ UnmaskedDepths = {} => vmax = Some(0)

C7_Witness ==
    /\ args.scale_mode = "datamax" /\ pc = "save"
    /\ InLog(InfoFlipped)
    /\ depths.data = << <<-3>>, <<-1>> >>
    /\ vmax = Some(-3)

\* the all-masked case of C7 is reachable as well
C7_WitnessAllMasked ==
    /\ args.scale_mode = "datamax" /\ pc = "save"
    /\ UnmaskedDepths = {} /\ vmax = Some(0) /\ InLog(WarnAllMissing)

Count(seq, x) == Cardinality({ k \in DOMAIN seq : seq[k] = x })
InBox(pt) ==
    /\ \E a \in DOMAIN metaFile["lon_list"] : metaFile["lon_list"][a] <= pt[1]
    /\ \E a \in DOMAIN metaFile["lon_list"] : pt[1] <= metaFile["lon_list"][a]
    /\ \E a \in DOMAIN FileLats : FileLats[a] <= pt[2]
    /\ \E a \in DOMAIN FileLats : pt[2] <= FileLats[a]
Eligible(rec) ==
    /\ rec.NAME # "Oakland"
    /\ rec.POP_MAX # None /\ rec.POP_MAX[1] >= 500000
    /\ InBox(rec.pt)
C10_DefensiveBranchesDead ==
    /\ (pc = "resolve_scale" /\ args.scale_mode = "metadata") => meta_max # None
    /\ (pc # "load_meta" /\ meta_max = None) => args.scale_mode = "datamax"
    /\ args.scale_mode \in {"metadata", "datamax", "user"}
    /\ ~InLog(ErrNoMetaMax)
    /\ ~InLog(ErrInvalidMode)

C10_Witness ==
    /\ pc = "resolve_scale" /\ args.scale_mode = "metadata" /\ argv.scale_mode = "metadata"
    /\ meta_max = Some(6)

====
